---- MODULE Spec2Model ----
(***************************************************************************)
(* State-machine model of the space-weather watcher (src/src/main.rs):     *)
(* the risk scorer score_local, the three interval loops poll_rtsw_task    *)
(* (Fast), poll_alerts_task (Alerts), poll_kp_task (Warm-cache), the        *)
(* wall-clock aligned daily_report_scheduler (Daily) and the two gated      *)
(* channels of send_notifications.                                          *)
(*                                                                         *)
(* Time is the wall clock in whole seconds (Utc::now().timestamp()).       *)
(* Floating-point quantities are fixed point: Kp and latitude in tenths,   *)
(* the Local Impact Score in hundredths of a point; Bz (nT) and speed      *)
(* (km/s) are whole numbers.                                               *)
(***************************************************************************)
EXTENDS Integers, Sequences, FiniteSets, TLC

VARIABLES
    now,              \* wall clock, seconds (what Utc::now() returns)
    cfg,              \* Config, read-only after Config::from_env
    proc_alive,       \* FALSE once the main task has panicked (process gone)
    last_short_sent,  \* poll_rtsw_task local
    last_lis_sent,    \* poll_rtsw_task local
    last_levels,      \* poll_alerts_task local
    daily_pc,         \* position of daily_report_scheduler in its loop body
    now_local,        \* daily_report_scheduler local (instant read at the top)
    target_local,     \* daily_report_scheduler local (instant of the target)
    daily_wake,       \* deadline of the tokio sleep the Daily loop awaits
    fast_tick,        \* history: what the last Fast tick fetched and did
    fast_sent,        \* history: notifications sent by the Fast loop
    alerts_tick,      \* history: what the last Alerts tick fetched and did
    alerts_notified,  \* history: tuples the Alerts loop notified for
    fire_log,         \* history: instants at which the Daily loop entered Fire
    daily_sent,       \* history: number of daily reports handed to send_notifications
    failed_ticks,     \* history: loops that have had a failed tick
    last_send,        \* history: the send_notifications call of the step just taken
    scored            \* a Reading handed to score_local and what it returned

vars == <<now, cfg, proc_alive, last_short_sent, last_lis_sent, last_levels,
          daily_pc, now_local, target_local, daily_wake, fast_tick, fast_sent,
          alerts_tick, alerts_notified, fire_log, daily_sent, failed_ticks,
          last_send, scored>>

(***************************************************************************)
(* Bounds of the model.                                                    *)
(***************************************************************************)
\* The calendar of the model: days 0 .. MaxDay, one spring-forward and one
\* fall-back transition of the observer's zone inside it.
MaxDay == 10
SpringDay == 5
FallDay == 8
\* Latest wake-up lag of a timer / duration of a fetch, seconds.
MaxLag == 2

Day == 24 * 3600
Hour == 60 * 60
MaxNow == MaxDay * Day

Lags == {0, MaxLag}

Max(a, b) == IF a >= b THEN a ELSE b
Min(a, b) == IF a <= b THEN a ELSE b
Clamp(x, lo, hi) == Max(lo, Min(x, hi))
Abs(x) == IF x < 0 THEN -x ELSE x

(***************************************************************************)
(* The observer's time zone (cfg.tz, chrono_tz): America/New_York, the      *)
(* default of Config::from_env.  Standard time is UTC-5, daylight time      *)
(* UTC-4; clocks go 02:00 EST -> 03:00 EDT on SpringDay and 02:00 EDT ->    *)
(* 01:00 EST on FallDay.                                                   *)
(***************************************************************************)
StdOffset == -5 * Hour
DstOffset == -4 * Hour
SpringUtc == SpringDay * Day + 7 * Hour
FallUtc == FallDay * Day + 6 * Hour

\* UTC offset in force at the UTC instant u.
Offset(u) == IF SpringUtc <= u /\ u < FallUtc THEN DstOffset ELSE StdOffset

\* with_timezone(&cfg.tz): the local wall-clock reading of instant u, as
\* seconds since local midnight of day 0.
LocalSecs(u) == u + Offset(u)
date_naive(u) == LocalSecs(u) \div Day
LocalSecOfDay(u) == LocalSecs(u) % Day
LocalHour(u) == LocalSecOfDay(u) \div Hour

\* cfg.tz.with_ymd_and_hms(date, hour, 0, 0): the LocalResult, as the set of
\* instants whose local reading is date hour:00:00 -- empty in a DST gap
\* (LocalResult::None), two instants in a DST fold (LocalResult::Ambiguous).
with_ymd_and_hms(date, hour) ==
    LET l == date * Day + hour * Hour
    IN  {u \in {l - StdOffset, l - DstOffset} : LocalSecs(u) = l}

\* is_daylight_local(now_utc, tz, 7, 19)
is_daylight_local(u, start_h, end_h) ==
    LocalHour(u) >= start_h /\ LocalHour(u) < end_h

(***************************************************************************)
(* Results of the Telemetry fetchers.  A Result is Ok or Err (a network    *)
(* error: reqwest::Error); an Option is Some or None.                      *)
(***************************************************************************)
Err == [ok |-> FALSE, some |-> FALSE, v |-> 0]
OkSome(x) == [ok |-> TRUE, some |-> TRUE, v |-> x]
OkNone == [ok |-> TRUE, some |-> FALSE, v |-> 0]
ErrLevels == [ok |-> FALSE, g |-> 0, r |-> 0, s |-> 0]
OkLevels(g, r, s) == [ok |-> TRUE, g |-> g, r |-> r, s |-> s]

(***************************************************************************)
(* score_local.  lat10 and kp10 are tenths; the result's lis is in         *)
(* hundredths of a point.                                                  *)
(***************************************************************************)
r_map == <<0, 6, 12, 18, 22, 25>>
s_map == <<0, 2, 5, 8, 10, 10>>

\* geo_w = ((lat.abs() - 30.0) / 20.0).clamp(0.2, 1.0), in hundredths
geo_w(lat10) == Clamp(((Abs(lat10) - 300) * 100) \div 200, 20, 100)
\* geo_base = ((kp_max24 - 4.0) / 5.0).clamp(0.0, 1.0), in hundredths
geo_base(kp10) == Clamp((kp10 - 40) * 2, 0, 100)
\* geo_score = 60.0 * geo_w * geo_base
geo_score(lat10, kp10) == (60 * geo_w(lat10) * geo_base(kp10)) \div 100

\* Mutant of short_flag_of: the speed is not looked at.
short_flag_of_bz_only(bz, spd, short_bz_nt, short_spd_kms) ==
    /\ bz.some
    /\ bz.v <= short_bz_nt

\* short_flag of score_local: both L1 values present and past their thresholds
short_flag_of(bz, spd, short_bz_nt, short_spd_kms) ==
    /\ bz.some
    /\ spd.some
    /\ bz.v <= short_bz_nt
    /\ spd.v >= short_spd_kms

\* short_score = short.clamp(0.0, 30.0)
short_score(bz, spd, short_bz_nt, short_spd_kms) ==
    IF bz.some /\ spd.some
    THEN Clamp(100 * ( (IF bz.v <= short_bz_nt /\ spd.v >= short_spd_kms THEN 20 ELSE 0)
                     + (IF bz.v <= short_bz_nt - 5 THEN 5 ELSE 0)
                     + (IF spd.v >= short_spd_kms + 200 THEN 5 ELSE 0) ),
               0, 3000)
    ELSE 0

\* r_score: r_map.get(r).unwrap_or(25.0), times 0.35 when it is not daylight
r_score(r, daylight) ==
    LET base == IF r + 1 \in DOMAIN r_map THEN r_map[r + 1] ELSE 25
    IN  IF daylight THEN base * 100 ELSE base * 35

\* s_score: s_map.get(s).unwrap_or(10.0), times 0.6 when |lat| < 40
s_score(s, lat10) ==
    LET base_s == IF s + 1 \in DOMAIN s_map THEN s_map[s + 1] ELSE 10
    IN  IF Abs(lat10) < 400 THEN base_s * 60 ELSE base_s * 100

\* Mutant of level_of: the lower bounds are exclusive.
level_of_exclusive(lis) ==
    IF lis > 8000 THEN "Severe"
    ELSE IF lis > 6000 THEN "High"
    ELSE IF lis > 4000 THEN "Moderate"
    ELSE IF lis > 2000 THEN "Elevated"
    ELSE "Low"

level_of(lis) ==
    IF lis >= 8000 THEN "Severe"
    ELSE IF lis >= 6000 THEN "High"
    ELSE IF lis >= 4000 THEN "Moderate"
    ELSE IF lis >= 2000 THEN "Elevated"
    ELSE "Low"

\* Mutant of score_local: the sum of the four terms is not clamped.
score_local_unclamped(lat10, kp10, bz, spd, g, r, s, daylight, short_bz_nt, short_spd_kms) ==
    LET lis == geo_score(lat10, kp10)
                 + short_score(bz, spd, short_bz_nt, short_spd_kms)
                 + r_score(r, daylight) + s_score(s, lat10)
    IN  [lis |-> lis,
         level |-> level_of(lis),
         short |-> short_flag_of(bz, spd, short_bz_nt, short_spd_kms)]

score_local(lat10, kp10, bz, spd, g, r, s, daylight, short_bz_nt, short_spd_kms) ==
    LET lis == Clamp(geo_score(lat10, kp10)
                       + short_score(bz, spd, short_bz_nt, short_spd_kms)
                       + r_score(r, daylight) + s_score(s, lat10),
                     0, 10000)
    IN  [lis |-> lis,
         level |-> level_of(lis),
         short |-> short_flag_of(bz, spd, short_bz_nt, short_spd_kms)]

(***************************************************************************)
(* build_quick_status: the three L1/Kp fetches are joined with try_join!   *)
(* and the alert fetch follows; `?` returns Err as soon as one of the four  *)
(* is Err.  Otherwise the reading is scored at the instant u.              *)
(***************************************************************************)
NoStatus == [ok |-> FALSE, lis |-> 0, level |-> "Low", short |-> FALSE]

build_quick_status(kpR, bzR, spdR, alR, u) ==
    IF ~(kpR.ok /\ bzR.ok /\ spdR.ok /\ alR.ok)
    THEN NoStatus
    ELSE LET sc == score_local(cfg.lat, kpR.v, bzR, spdR, alR.g, alR.r, alR.s,
                               is_daylight_local(u, 7, 19),
                               cfg.short_bz_nt, cfg.short_spd_kms)
         IN  [ok |-> TRUE, lis |-> sc.lis, level |-> sc.level, short |-> sc.short]

\* build_full_status / summarize_for_email: build_quick_status without the flag
build_full_status(kpR, bzR, spdR, alR, u) == build_quick_status(kpR, bzR, spdR, alR, u)

(***************************************************************************)
(* Notifications.  The credential fields of cfg are booleans: whether the  *)
(* Option is Some.                                                         *)
(***************************************************************************)
want_email(c) ==
    c.smtp_server /\ c.smtp_user /\ c.smtp_pass /\ c.email_from /\ c.email_to
want_sms(c) ==
    c.twilio_sid /\ c.twilio_token /\ c.twilio_from /\ c.sms_to

\* What one call of send_notifications did on each channel: "off" (not
\* invoked), "ok" or "failed", and how many times the channel was invoked.
NotCalled == [email |-> "none", sms |-> "none", email_tries |-> 0, sms_tries |-> 0]

\* Mutant of send_notifications: an email that failed is sent a second time.
send_notifications_retrying(c, emailOk, smsOk) ==
    [email |-> IF want_email(c) THEN (IF emailOk THEN "ok" ELSE "failed") ELSE "off",
     sms |-> IF want_sms(c) THEN (IF smsOk THEN "ok" ELSE "failed") ELSE "off",
     email_tries |-> IF want_email(c) THEN (IF emailOk THEN 1 ELSE 2) ELSE 0,
     sms_tries |-> IF want_sms(c) THEN 1 ELSE 0]

\* Mutant of send_notifications: an email error returns before the SMS.
send_notifications_stops_on_error(c, emailOk, smsOk) ==
    LET stopped == want_email(c) /\ ~emailOk
    IN  [email |-> IF want_email(c) THEN (IF emailOk THEN "ok" ELSE "failed") ELSE "off",
         sms |-> IF want_sms(c) /\ ~stopped
                 THEN (IF smsOk THEN "ok" ELSE "failed") ELSE "off",
         email_tries |-> IF want_email(c) THEN 1 ELSE 0,
         sms_tries |-> IF want_sms(c) /\ ~stopped THEN 1 ELSE 0]

\* send_notifications: send_email if want_email, then send_sms_twilio if
\* want_sms; an Err of either (emailOk, smsOk: whether it returned Ok) is
\* printed and nothing is returned to the caller.
send_notifications(c, emailOk, smsOk) ==
    [email |-> IF want_email(c) THEN (IF emailOk THEN "ok" ELSE "failed") ELSE "off",
     sms |-> IF want_sms(c) THEN (IF smsOk THEN "ok" ELSE "failed") ELSE "off",
     email_tries |-> IF want_email(c) THEN 1 ELSE 0,
     sms_tries |-> IF want_sms(c) THEN 1 ELSE 0]

\* The value of last_send after a step of loop `by` whose fetches returned
\* Ok or not (ok) and which called send_notifications or not (called).
SendOf(by, ok, called, emailOk, smsOk) ==
    [by |-> by, ok |-> ok, calls |-> IF called THEN 1 ELSE 0,
     out |-> IF called THEN send_notifications(cfg, emailOk, smsOk) ELSE NotCalled]
NoSend == [by |-> "none", ok |-> TRUE, calls |-> 0, out |-> NotCalled]

(***************************************************************************)
(* Fast loop: poll_rtsw_task.                                              *)
(***************************************************************************)
\* Mutant of can_send_short: the cooldown must be strictly exceeded.
can_send_short_strict(t, last) == t - last > 10 * 60
\* can_send_short = now - last_short_sent >= 10 * 60
can_send_short(t, last) == t - last >= 10 * 60
\* Mutant of can_send_lis: the short-fuse cooldown used for the LIS class.
can_send_lis_short_cooldown(t, last) == t - last >= 10 * 60
\* can_send_lis = now - last_lis_sent >= 30 * 60
can_send_lis(t, last) == t - last >= 30 * 60

\* Mutant of fast_decision: a short-fuse condition inside its cooldown ends
\* the tick without the LIS rule being looked at.
fast_decision_no_fall_through(st, t, last_short, last_lis) ==
    IF ~st.ok THEN "none"
    ELSE IF st.short
         THEN (IF can_send_short(t, last_short) THEN "short" ELSE "none")
    ELSE IF st.lis >= cfg.lis_threshold * 100 /\ can_send_lis(t, last_lis) THEN "lis"
    ELSE "none"

\* The branch the tick takes: the if / else-if chain of the loop body.
fast_decision(st, t, last_short, last_lis) ==
    IF ~st.ok THEN "none"
    ELSE IF st.short /\ can_send_short(t, last_short) THEN "short"
    ELSE IF st.lis >= cfg.lis_threshold * 100 /\ can_send_lis(t, last_lis) THEN "lis"
    ELSE "none"

\* Mutant of fast_update: a short-fuse notification resets both cooldowns.
fast_update_resets_both(decision, t, last_short, last_lis) ==
    IF decision = "short" THEN <<t, t>>
    ELSE IF decision = "lis" THEN <<last_short, t>>
    ELSE <<last_short, last_lis>>

\* Mutant of fast_update: a tick that sends nothing stamps last_short_sent.
fast_update_always_stamps(decision, t, last_short, last_lis) ==
    IF decision = "lis" THEN <<last_short, t>> ELSE <<t, last_lis>>

\* The assignments of the branch taken: <<last_short_sent, last_lis_sent>> after it.
fast_update(decision, t, last_short, last_lis) ==
    IF decision = "short" THEN <<t, last_lis>>
    ELSE IF decision = "lis" THEN <<last_short, t>>
    ELSE <<last_short, last_lis>>

\* One iteration of the loop: intv.tick() returns, build_quick_status is
\* awaited, and d seconds after the previous clock reading Utc::now() is
\* read; kpR, bzR, spdR, alR are what the four fetches returned, emailOk and
\* smsOk what the two channels return if they are invoked.
poll_rtsw_task(d, kpR, bzR, spdR, alR, emailOk, smsOk) ==
    /\ proc_alive
    /\ now + d <= MaxNow
    /\ now' = now + d
    /\ LET st == build_quick_status(kpR, bzR, spdR, alR, now')
           decision == fast_decision(st, now', last_short_sent, last_lis_sent)
           upd == fast_update(decision, now', last_short_sent, last_lis_sent)
       IN  /\ last_short_sent' = upd[1]
           /\ last_lis_sent' = upd[2]
           /\ fast_sent' = IF decision = "none" THEN fast_sent
                           ELSE Append(fast_sent, [class |-> decision, at |-> now'])
           /\ fast_tick' = [ran |-> TRUE, feeds |-> <<kpR, bzR, spdR, alR>>,
                            built |-> st.ok, lis |-> st.lis, short |-> st.short,
                            at |-> now', sent |-> decision]
           /\ failed_ticks' = IF st.ok THEN failed_ticks ELSE failed_ticks \cup {"fast"}
           /\ last_send' = SendOf("fast", st.ok, decision # "none", emailOk, smsOk)
    /\ UNCHANGED <<cfg, proc_alive, last_levels, daily_pc, now_local, target_local,
                   daily_wake, alerts_tick, alerts_notified, fire_log, daily_sent, scored>>

(***************************************************************************)
(* Alerts loop: poll_alerts_task.                                          *)
(***************************************************************************)
\* g >= cfg.g_min_notify || r >= cfg.r_min_notify || s >= cfg.s_min_notify
meets_minimum(al) ==
    al.g >= cfg.g_min_notify \/ al.r >= cfg.r_min_notify \/ al.s >= cfg.s_min_notify

\* The nested ifs of the loop body: whether this tick notifies.
alerts_decision(al, last) ==
    al.ok /\ meets_minimum(al) /\ <<al.g, al.r, al.s>> # last

\* Mutant of alerts_update: the notified tuple is not remembered.
alerts_update_forgets(notify, al, last) == last

\* Mutant of alerts_update: a tuple below the minimums clears the memory.
alerts_update_resets_on_lull(notify, al, last) ==
    IF notify THEN <<al.g, al.r, al.s>>
    ELSE IF al.ok /\ ~meets_minimum(al) THEN <<0, 0, 0>>
    ELSE last

\* last_levels after the tick.
alerts_update(notify, al, last) ==
    IF notify THEN <<al.g, al.r, al.s>> ELSE last

\* One iteration: intv.tick() returns and fetch_alert_levels is awaited, d
\* seconds after the previous clock reading; on a notification the body
\* comes from summarize_for_email (bodyOk: whether it returned Ok; an Err is
\* replaced by the default body and the notification is sent all the same).
\* alerts_tick.lull records whether a tuple below the minimums has been
\* fetched since the last notification.
poll_alerts_task(d, alR, bodyOk, emailOk, smsOk) ==
    /\ proc_alive
    /\ now + d <= MaxNow
    /\ now' = now + d
    /\ LET notify == alerts_decision(alR, last_levels)
       IN  /\ last_levels' = alerts_update(notify, alR, last_levels)
           /\ alerts_notified' = IF notify THEN <<<<alR.g, alR.r, alR.s>>>>
                                 ELSE alerts_notified
           /\ alerts_tick' = [ran |-> TRUE, feed |-> alR, sent |-> notify,
                              body_ok |-> notify /\ bodyOk,
                              before |-> alerts_notified,
                              lull |-> IF notify THEN FALSE
                                       ELSE \/ alerts_tick.lull
                                            \/ alR.ok /\ ~meets_minimum(alR)]
           /\ failed_ticks' = IF alR.ok THEN failed_ticks ELSE failed_ticks \cup {"alerts"}
           /\ last_send' = SendOf("alerts", alR.ok, notify, emailOk, smsOk)
    /\ UNCHANGED <<cfg, proc_alive, last_short_sent, last_lis_sent, daily_pc, now_local,
                   target_local, daily_wake, fast_tick, fast_sent, fire_log, daily_sent, scored>>

(***************************************************************************)
(* Warm-cache loop: poll_kp_task.  The result of the fetch is dropped.     *)
(***************************************************************************)
\* Mutant of poll_kp_task: last_levels is shared and the tick clears it.
poll_kp_task_clears_levels(d, kpR) ==
    /\ proc_alive
    /\ d > 0
    /\ now + d <= MaxNow
    /\ now' = now + d
    /\ failed_ticks' = IF kpR.ok THEN failed_ticks ELSE failed_ticks \cup {"kp"}
    /\ last_send' = SendOf("kp", kpR.ok, FALSE, TRUE, TRUE)
    /\ last_levels' = <<0, 0, 0>>
    /\ UNCHANGED <<cfg, proc_alive, last_short_sent, last_lis_sent,
                   daily_pc, now_local, target_local, daily_wake, fast_tick, fast_sent,
                   alerts_tick, alerts_notified, fire_log, daily_sent, scored>>

poll_kp_task(d, kpR) ==
    /\ proc_alive
    /\ d > 0
    /\ now + d <= MaxNow
    /\ now' = now + d
    /\ failed_ticks' = IF kpR.ok THEN failed_ticks ELSE failed_ticks \cup {"kp"}
    /\ last_send' = SendOf("kp", kpR.ok, FALSE, TRUE, TRUE)
    /\ UNCHANGED <<cfg, proc_alive, last_short_sent, last_lis_sent, last_levels,
                   daily_pc, now_local, target_local, daily_wake, fast_tick, fast_sent,
                   alerts_tick, alerts_notified, fire_log, daily_sent, scored>>

(***************************************************************************)
(* Daily loop: daily_report_scheduler, one action per await-delimited      *)
(* step of the loop body.                                                  *)
(***************************************************************************)
\* target_local: today_run, or today_run + Duration::days(1) (86400 seconds
\* added to the instant) when now_local >= today_run.
compute_target(n, today_run) ==
    IF n >= today_run THEN today_run + Day ELSE today_run

\* Top of the loop body up to the first sleep: read the clock, build
\* today_run with with_ymd_and_hms(..).unwrap() -- which panics unless the
\* LocalResult is Single -- pick the target and the sleep duration
\* (to_std().unwrap_or(0): a negative duration becomes 0).  A panic here
\* unwinds out of main: the process, and every spawned loop with it, ends.
DailyCompute ==
    /\ proc_alive
    /\ daily_pc = "ComputeNextFire"
    /\ LET res == with_ymd_and_hms(date_naive(now), cfg.daily_hour)
       IN  IF Cardinality(res) # 1
           THEN /\ daily_pc' = "Panicked"
                /\ proc_alive' = FALSE
                /\ now_local' = now
                /\ UNCHANGED <<target_local, daily_wake>>
           ELSE LET today_run == CHOOSE u \in res : TRUE
                    target == compute_target(now, today_run)
                IN  /\ now_local' = now
                    /\ target_local' = target
                    /\ daily_wake' = now + Max(target - now, 0)
                    /\ daily_pc' = "Sleeping"
                    /\ UNCHANGED proc_alive
    /\ last_send' = NoSend
    /\ UNCHANGED <<now, cfg, last_short_sent, last_lis_sent, last_levels, fast_tick,
                   fast_sent, alerts_tick, alerts_notified, fire_log, daily_sent,
                   failed_ticks, scored>>

\* sleep(dur).await returns, lag seconds after its deadline at the earliest.
DailySleep(lag) ==
    /\ proc_alive
    /\ daily_pc = "Sleeping"
    /\ Max(now, daily_wake) + lag <= MaxNow
    /\ now' = Max(now, daily_wake) + lag
    /\ daily_pc' = "Fire"
    /\ last_send' = NoSend
    /\ UNCHANGED <<cfg, proc_alive, last_short_sent, last_lis_sent, last_levels,
                   now_local, target_local, daily_wake, fast_tick, fast_sent,
                   alerts_tick, alerts_notified, fire_log, daily_sent, failed_ticks, scored>>

\* Mutant of daily_notifies: the report is sent only past the LIS threshold.
daily_notifies_past_threshold(st) == st.ok /\ st.lis >= cfg.lis_threshold * 100
\* `if let Ok(..) = build_full_status(..)`: whether Fire sends its report.
daily_notifies(st) == st.ok

\* Fire: build_full_status is awaited (e seconds) and, if it is Ok, the
\* report goes to send_notifications; then the 24 h sleep is started.
DailyFire(e, kpR, bzR, spdR, alR, emailOk, smsOk) ==
    /\ proc_alive
    /\ daily_pc = "Fire"
    /\ now + e <= MaxNow
    /\ now' = now + e
    /\ fire_log' = Append(fire_log, date_naive(now))
    /\ LET st == build_full_status(kpR, bzR, spdR, alR, now')
       IN  /\ daily_sent' = IF daily_notifies(st) THEN daily_sent + 1 ELSE daily_sent
           /\ failed_ticks' = IF st.ok THEN failed_ticks ELSE failed_ticks \cup {"daily"}
           /\ last_send' = SendOf("daily", st.ok, daily_notifies(st), emailOk, smsOk)
    /\ daily_wake' = now' + 24 * 3600
    /\ daily_pc' = "Sleep24"
    /\ UNCHANGED <<cfg, proc_alive, last_short_sent, last_lis_sent, last_levels,
                   now_local, target_local, fast_tick, fast_sent, alerts_tick,
                   alerts_notified, scored>>

\* sleep(24 h).await returns; the loop body starts over.
DailySleep24(lag) ==
    /\ proc_alive
    /\ daily_pc = "Sleep24"
    /\ Max(now, daily_wake) + lag <= MaxNow
    /\ now' = Max(now, daily_wake) + lag
    /\ daily_pc' = "ComputeNextFire"
    /\ last_send' = NoSend
    /\ UNCHANGED <<cfg, proc_alive, last_short_sent, last_lis_sent, last_levels,
                   now_local, target_local, daily_wake, fast_tick, fast_sent,
                   alerts_tick, alerts_notified, fire_log, daily_sent, failed_ticks, scored>>

(***************************************************************************)
(* The call of score_local in build_quick_status, for the Reading held in  *)
(* `scored` and the thresholds and latitude of cfg.                        *)
(***************************************************************************)
ScoreReading ==
    /\ scored.given
    /\ LET rd == scored.reading
       IN  scored' = [scored EXCEPT
                        !.done = TRUE,
                        !.result = score_local(cfg.lat, rd.kp, rd.bz, rd.spd,
                                               rd.g, rd.r, rd.s, rd.daylight,
                                               cfg.short_bz_nt, cfg.short_spd_kms)]
    /\ UNCHANGED <<now, cfg, proc_alive, last_short_sent, last_lis_sent, last_levels,
                   daily_pc, now_local, target_local, daily_wake, fast_tick, fast_sent,
                   alerts_tick, alerts_notified, fire_log, daily_sent, failed_ticks,
                   last_send>>

(***************************************************************************)
(* Configuration and initial state.                                        *)
(***************************************************************************)
\* Config::from_env with nothing set but DAILY_REPORT_HOUR = h.
DefaultCfg(h) ==
    [lat |-> 289, lis_threshold |-> 40,
     g_min_notify |-> 2, r_min_notify |-> 2, s_min_notify |-> 2,
     short_bz_nt |-> -10, short_spd_kms |-> 600, daily_hour |-> h,
     smtp_server |-> FALSE, smtp_user |-> FALSE, smtp_pass |-> FALSE,
     email_from |-> FALSE, email_to |-> FALSE,
     twilio_sid |-> FALSE, twilio_token |-> FALSE, twilio_from |-> FALSE,
     sms_to |-> FALSE]

\* The environment variables of the two credential sets.
EmailVars == {"SMTP_SERVER", "SMTP_USERNAME", "SMTP_PASSWORD", "EMAIL_FROM", "EMAIL_TO"}
SmsVars == {"TWILIO_ACCOUNT_SID", "TWILIO_AUTH_TOKEN", "TWILIO_FROM", "SMS_TO"}

\* Config::from_env with, in addition, the credential variables `set` set
\* and LAT = lat10 / 10.
from_env(h, lat10, set) ==
    [DefaultCfg(h) EXCEPT
        !.lat = lat10,
        !.smtp_server = "SMTP_SERVER" \in set,
        !.smtp_user = "SMTP_USERNAME" \in set,
        !.smtp_pass = "SMTP_PASSWORD" \in set,
        !.email_from = "EMAIL_FROM" \in set,
        !.email_to = "EMAIL_TO" \in set,
        !.twilio_sid = "TWILIO_ACCOUNT_SID" \in set,
        !.twilio_token = "TWILIO_AUTH_TOKEN" \in set,
        !.twilio_from = "TWILIO_FROM" \in set,
        !.sms_to = "SMS_TO" \in set]

\* The configurations with both channels configured and the default
\* location, one per report hour.
BothChannels(hours) == {from_env(h, 289, EmailVars \cup SmsVars) : h \in hours}

NoFastTick ==
    [ran |-> FALSE, feeds |-> <<Err, Err, Err, ErrLevels>>, built |-> FALSE,
     lis |-> 0, short |-> FALSE, at |-> 0, sent |-> "none"]
NoAlertsTick ==
    [ran |-> FALSE, feed |-> ErrLevels, sent |-> FALSE, body_ok |-> FALSE,
     before |-> <<>>, lull |-> FALSE]

\* The arguments of one call of score_local that come from the feeds and
\* the clock, and the value of `scored` before and without such a call.
Reading(kp10, bz, spd, g, r, s, daylight) ==
    [kp |-> kp10, bz |-> bz, spd |-> spd, g |-> g, r |-> r, s |-> s,
     daylight |-> daylight]
NotScored == [lis |-> 0, level |-> "", short |-> FALSE]
Unscored(rd) == [given |-> TRUE, reading |-> rd, done |-> FALSE, result |-> NotScored]
NoReading ==
    [given |-> FALSE, reading |-> Reading(0, OkNone, OkNone, 0, 0, 0, FALSE),
     done |-> FALSE, result |-> NotScored]

\* The state when main has spawned the three interval loops and enters
\* daily_report_scheduler, at one of the instants `starts` with one of the
\* configurations `cfgs`; `readings` are the values of `scored`.
InitAt(starts, cfgs, readings) ==
    /\ now \in starts
    /\ cfg \in cfgs
    /\ proc_alive = TRUE
    /\ last_short_sent = 0
    /\ last_lis_sent = 0
    /\ last_levels = <<0, 0, 0>>
    /\ daily_pc = "ComputeNextFire"
    /\ now_local = 0
    /\ target_local = 0
    /\ daily_wake = 0
    /\ fast_tick = NoFastTick
    /\ fast_sent = <<>>
    /\ alerts_tick = NoAlertsTick
    /\ alerts_notified = <<>>
    /\ fire_log = <<>>
    /\ daily_sent = 0
    /\ failed_ticks = {}
    /\ last_send = NoSend
    /\ scored \in readings

(***************************************************************************)
(* Inputs enumerated by the specifications.                                *)
(***************************************************************************)
\* What the four fetches of one build_quick_status return, <<Kp (tenths),
\* Bz (nT), speed (km/s), alert levels>>: the short-fuse condition alone, with
\* a score past the threshold, the score alone, neither, and each single
\* network failure among otherwise short-fuse, high-score feeds.
AllFeeds ==
    { <<OkSome(90), OkSome(-12), OkSome(650), OkLevels(0, 0, 0)>>,
      <<OkSome(90), OkSome(-12), OkSome(650), OkLevels(0, 5, 4)>>,
      <<OkSome(90), OkNone, OkSome(650), OkLevels(0, 5, 4)>>,
      <<OkSome(90), OkSome(-12), OkNone, OkLevels(0, 0, 0)>>,
      <<Err, OkSome(-12), OkSome(650), OkLevels(0, 5, 4)>>,
      <<OkSome(90), Err, OkSome(650), OkLevels(0, 5, 4)>>,
      <<OkSome(90), OkSome(-12), Err, OkLevels(0, 5, 4)>>,
      <<OkSome(90), OkSome(-12), OkSome(650), ErrLevels>> }

\* Highest alert level the Alerts loop is fed (the scales go to 5).
MaxLevel == 2
Levels == 0 .. MaxLevel
LevelFeeds == {ErrLevels} \cup {OkLevels(g, r, s) : g \in Levels, r \in Levels, s \in Levels}

\* Seconds between two clock readings of the Fast loop.
FastDeltas == {9 * 60, 10 * 60 - 1, 10 * 60, 11 * 60}
\* The Fast loop is followed over the last FastWindow minutes of the calendar.
FastWindow == 40
FastStart == MaxNow - FastWindow * 60

AlertsDeltas == {0, 5 * 60}

\* What the two channels return in one call of send_notifications,
\* <<email, SMS>> (TRUE: Ok): every combination, both alike, both Ok.
Outcomes == BOOLEAN \X BOOLEAN
SameOutcomes == {<<TRUE, TRUE>>, <<FALSE, FALSE>>}
Delivered == {<<TRUE, TRUE>>}
AlertsStart == MaxNow - 5 * 60

\* Daily loop alone: it starts on day 1 or 2 at 00:00, 07:00, 07:00:01 or
\* 15:00 EST, with the report hour at midnight, in the fold (01), in the gap
\* (02), the default (07) or the last hour of the day.
DailyHours == {0, 1, 2, 7, 23}
DailyStarts == {d * Day + h * Hour + x : d \in {1, 2}, h \in {5, 12, 20}, x \in {0, 1}}

\* Readings handed to score_local: Kp (tenths) below the geomagnetic term's
\* floor, inside its range, at and past its ceiling (Kp 20); Bz and speed
\* absent and around their thresholds and bonus steps; G, R and S levels
\* inside and past the tables (9); day and night.
ScoreKps == {0, 40, 65, 90, 200}
ScoreBzs == {OkNone} \cup {OkSome(x) : x \in {5, -9, -10, -14, -15}}
ScoreSpeeds == {OkNone} \cup {OkSome(x) : x \in {599, 600, 799, 800}}
ScoreRLevels == {0, 3, 5, 9}
ScoreSLevels == {0, 5, 9}
Readings ==
    { Unscored(Reading(kp, bz, spd, g, r, s, dl)) :
        kp \in ScoreKps, bz \in ScoreBzs, spd \in ScoreSpeeds, g \in {0, 5},
        r \in ScoreRLevels, s \in ScoreSLevels, dl \in BOOLEAN }
\* Observer latitudes (tenths of a degree): the equator, the default, either
\* side of 40, inside the weight's ramp and past it in both hemispheres.
ScoreLats == {0, 289, 399, 400, 450, 650, -650}

(***************************************************************************)
(* Specifications.                                                         *)
(***************************************************************************)
InitFast == InitAt({FastStart}, BothChannels({7}), {NoReading})
NextFast ==
    \E d \in FastDeltas, f \in AllFeeds, o \in SameOutcomes :
        poll_rtsw_task(d, f[1], f[2], f[3], f[4], o[1], o[2])
SpecFast == InitFast /\ [][NextFast]_vars

InitAlerts == InitAt({AlertsStart}, BothChannels({7}), {NoReading})
NextAlerts ==
    \E d \in AlertsDeltas, alR \in LevelFeeds, bodyOk \in BOOLEAN, o \in Delivered :
        poll_alerts_task(d, alR, bodyOk, o[1], o[2])
SpecAlerts == InitAlerts /\ [][NextAlerts]_vars

InitDaily == InitAt(DailyStarts, BothChannels(DailyHours), {NoReading})
NextDaily ==
    \/ DailyCompute
    \/ \E lag \in Lags : DailySleep(lag)
    \/ \E e \in Lags, f \in AllFeeds, o \in Outcomes :
          DailyFire(e, f[1], f[2], f[3], f[4], o[1], o[2])
    \/ \E lag \in Lags : DailySleep24(lag)
SpecDaily == InitDaily /\ [][NextDaily]_vars

\* The four loops together, from 00:30 EDT on the fall-back day, with the
\* report hour in the fold (01) or at the default (07); a clock reading is
\* taken CoarseDelta after the previous one.
CoarseDelta == 12 * Hour
AllStart == FallDay * Day + 4 * Hour + 30 * 60
CoarseLevelFeeds == {ErrLevels, OkLevels(0, 0, 0), OkLevels(2, 0, 0), OkLevels(2, 1, 0)}
\* Of AllFeeds: short-fuse with a high score, the score alone, neither, and a
\* failed Kp fetch.
CoarseFeeds ==
    { <<OkSome(90), OkSome(-12), OkSome(650), OkLevels(0, 5, 4)>>,
      <<OkSome(90), OkNone, OkSome(650), OkLevels(0, 5, 4)>>,
      <<OkSome(90), OkSome(-12), OkNone, OkLevels(0, 0, 0)>>,
      <<Err, OkSome(-12), OkSome(650), OkLevels(0, 5, 4)>> }

Init == InitAt({AllStart}, BothChannels({1, 7}), {NoReading})
Next ==
    \/ \E f \in CoarseFeeds, o \in Outcomes :
          poll_rtsw_task(CoarseDelta, f[1], f[2], f[3], f[4], o[1], o[2])
    \/ \E alR \in CoarseLevelFeeds, bodyOk \in BOOLEAN, o \in Outcomes :
          poll_alerts_task(CoarseDelta, alR, bodyOk, o[1], o[2])
    \/ \E kpR \in {Err, OkSome(90)} : poll_kp_task(CoarseDelta, kpR)
    \/ DailyCompute
    \/ \E lag \in Lags : DailySleep(lag)
    \/ \E e \in Lags, f \in CoarseFeeds, o \in Outcomes :
          DailyFire(e, f[1], f[2], f[3], f[4], o[1], o[2])
    \/ \E lag \in Lags : DailySleep24(lag)
Spec == Init /\ [][Next]_vars

\* The scorer alone: one Reading, one latitude, one call.
InitScore == InitAt({AllStart}, {from_env(7, l, {}) : l \in ScoreLats}, Readings)
NextScore == ScoreReading
SpecScore == InitScore /\ [][NextScore]_vars

\* The Fast and Alerts loops together on the fine clock, over the last half
\* hour of the calendar.
TicksStart == MaxNow - 30 * 60
\* CoarseFeeds and the short-fuse condition with a score below the threshold.
TickFeeds ==
    CoarseFeeds \cup {<<OkSome(90), OkSome(-12), OkSome(650), OkLevels(0, 0, 0)>>}
InitTicks == InitAt({TicksStart}, BothChannels({7}), {NoReading})
NextTicks ==
    \/ \E d \in {9 * 60, 10 * 60}, f \in TickFeeds, o \in SameOutcomes :
          poll_rtsw_task(d, f[1], f[2], f[3], f[4], o[1], o[2])
    \/ \E alR \in CoarseLevelFeeds, bodyOk \in BOOLEAN, o \in SameOutcomes :
          poll_alerts_task(5 * 60, alR, bodyOk, o[1], o[2])
SpecTicks == InitTicks /\ [][NextTicks]_vars

\* The notification channels: every subset of the nine credential variables
\* set, Alerts and Fast ticks that notify, every combination of results.
ChannelsStart == MaxNow - 10 * 60
InitChannels ==
    InitAt({ChannelsStart},
           {from_env(7, 289, set) : set \in SUBSET (EmailVars \cup SmsVars)},
           {NoReading})
NextChannels ==
    \/ \E alR \in {OkLevels(2, 0, 0), OkLevels(0, 0, 0)}, o \in Outcomes :
          poll_alerts_task(5 * 60, alR, TRUE, o[1], o[2])
    \/ \E f \in CoarseFeeds, o \in Outcomes :
          poll_rtsw_task(10 * 60, f[1], f[2], f[3], f[4], o[1], o[2])
SpecChannels == InitChannels /\ [][NextChannels]_vars

(***************************************************************************)
(* Daily loop: properties.                                                 *)
(***************************************************************************)
\* C1: once the Daily loop has fired, it fires exactly once on every local
\* civil day: two consecutive entries into Fire are on consecutive civil
\* dates (no day is skipped and none sees two fires).
C1_OneFirePerCivilDay ==
    \A i \in 1 .. Len(fire_log) - 1 : fire_log[i + 1] = fire_log[i] + 1

\* C6: every target the Daily loop computes is at local wall-clock time
\* daily_hour:00:00 in the observer's zone (stated for the targets on whose
\* local date that wall-clock time exists exactly once).
C6_TargetAtConfiguredHour ==
    (/\ daily_pc = "Sleeping"
     /\ Cardinality(with_ymd_and_hms(date_naive(target_local), cfg.daily_hour)) = 1)
        => LocalSecOfDay(target_local) = cfg.daily_hour * Hour

\* C8: a local hour that is ambiguous or does not exist on the target date
\* never stops the Daily loop: ComputeNextFire always goes on to Sleeping.
C8_ClockFailureDoesNotStopDaily ==
    daily_pc # "Panicked"

\* C10: with local now at or after today's daily_hour:00:00 the target is
\* tomorrow's occurrence, before it today's occurrence, and the target is
\* strictly later than now (stated for the cycles in which daily_hour:00:00
\* exists exactly once on tomorrow's date).
C10_BoundaryRule ==
    (/\ daily_pc = "Sleeping"
     /\ Cardinality(with_ymd_and_hms(date_naive(now_local) + 1, cfg.daily_hour)) = 1)
        => LET todayAt == date_naive(now_local) * Day + cfg.daily_hour * Hour
           IN  /\ LocalSecs(now_local) >= todayAt => LocalSecs(target_local) = todayAt + Day
               /\ LocalSecs(now_local) < todayAt => LocalSecs(target_local) = todayAt
               /\ target_local > now_local

\* C11: the Daily loop never enters Fire twice on the same local civil date,
\* and it never enters Fire at an instant earlier than the target computed
\* for the cycle.
C11_NoDoubleDailyFire ==
    /\ \A i, j \in 1 .. Len(fire_log) : i # j => fire_log[i] # fire_log[j]
    /\ daily_pc = "Fire" => now >= target_local

(***************************************************************************)
(* Fast loop: properties.                                                  *)
(***************************************************************************)
\* The notifications of one class the Fast loop has sent, oldest first.
SentOf(class) == SelectSeq(fast_sent, LAMBDA e : e.class = class)
\* The same before the last tick ran.
SentBefore(class) ==
    IF fast_tick.sent = class
    THEN SubSeq(SentOf(class), 1, Len(SentOf(class)) - 1)
    ELSE SentOf(class)
\* Whether at least secs seconds lie between the last notification of the
\* class before the last tick (if any) and that tick's clock reading.
Elapsed(class, secs) ==
    \/ SentBefore(class) = <<>>
    \/ fast_tick.at - SentBefore(class)[Len(SentBefore(class))].at >= secs

\* C2: a Fast tick sends a short-fuse notification if and only if its score
\* has short_fuse and at least 10 minutes have passed since the previous
\* short-fuse notification (none yet counts as passed); two short-fuse
\* notifications are never less than 600 seconds apart.
C2_ShortFuseCooldown ==
    /\ fast_tick.ran =>
          (fast_tick.sent = "short"
              <=> (fast_tick.built /\ fast_tick.short /\ Elapsed("short", 600)))
    /\ \A i \in 1 .. Len(SentOf("short")) - 1 :
          SentOf("short")[i + 1].at - SentOf("short")[i].at >= 600

\* C2 witness: two short-fuse notifications 11 minutes apart, then a tick 9
\* minutes after the second whose score has short_fuse and which sends no
\* short-fuse notification.
C2_Witness ==
    /\ Len(SentOf("short")) = 2
    /\ SentOf("short")[2].at - SentOf("short")[1].at = 11 * 60
    /\ fast_tick.built /\ fast_tick.short /\ fast_tick.sent # "short"
    /\ fast_tick.at - SentOf("short")[2].at = 9 * 60

\* C4: a Fast tick in which the short-fuse rule did not notify sends an LIS
\* notification if and only if the index is at least lis_threshold and at
\* least 30 minutes have passed since the previous LIS notification (none yet
\* counts as passed); two LIS notifications are never less than 1800 seconds
\* apart.
C4_LisCooldown ==
    /\ (fast_tick.ran /\ fast_tick.sent # "short") =>
          (fast_tick.sent = "lis"
              <=> (/\ fast_tick.built
                   /\ fast_tick.lis >= cfg.lis_threshold * 100
                   /\ Elapsed("lis", 1800)))
    /\ \A i \in 1 .. Len(SentOf("lis")) - 1 :
          SentOf("lis")[i + 1].at - SentOf("lis")[i].at >= 1800

\* C4 witness: a second LIS notification exactly 30 minutes after the first.
C4_Witness ==
    /\ Len(SentOf("lis")) = 2
    /\ SentOf("lis")[2].at - SentOf("lis")[1].at = 1800
    /\ fast_tick.sent = "lis"

\* C5: a Fast tick sends at most one notification; when the short-fuse rule
\* and the LIS rule are both eligible only the short-fuse notification is
\* sent; a short-fuse notification sets last_sent_at(short) to the tick's now
\* and leaves last_sent_at(lis) alone, an LIS notification the reverse.
C5_ShortFusePriority ==
    [][fast_tick' # fast_tick =>
        LET t == fast_tick'
            shortEligible == t.built /\ t.short /\ t.at - last_short_sent >= 600
            lisEligible == /\ t.built
                           /\ t.lis >= cfg.lis_threshold * 100
                           /\ t.at - last_lis_sent >= 1800
        IN  /\ Len(fast_sent') <= Len(fast_sent) + 1
            /\ (shortEligible /\ lisEligible) =>
                   fast_sent' = Append(fast_sent, [class |-> "short", at |-> t.at])
            /\ t.sent = "short" =>
                   (last_short_sent' = t.at /\ last_lis_sent' = last_lis_sent)
            /\ t.sent = "lis" =>
                   (last_lis_sent' = t.at /\ last_short_sent' = last_short_sent)
    ]_vars

\* C5 witness: a tick with the short-fuse condition and an index past the
\* threshold, both cooldowns elapsed, has sent the short-fuse notification
\* and last_lis_sent is still the earlier LIS notification's instant.
C5_Witness ==
    /\ fast_tick.sent = "short"
    /\ fast_tick.lis >= cfg.lis_threshold * 100
    /\ Len(SentOf("lis")) = 1
    /\ fast_tick.at - SentOf("lis")[1].at >= 1800
    /\ last_lis_sent = SentOf("lis")[1].at
    /\ last_short_sent = fast_tick.at

\* C21: a Fast tick whose score has short_fuse while fewer than 10 minutes
\* have passed since the last short-fuse notification still evaluates the
\* LIS rule: with the index at least lis_threshold and the LIS cooldown
\* elapsed it sends an LIS notification and stamps last_lis_sent only, and
\* otherwise it sends nothing; notifications of the same class stay at least
\* their own cooldown apart.
C21_LisFallThrough ==
    [][(/\ last_send'.by = "fast"
        /\ fast_tick'.built
        /\ fast_tick'.short
        /\ now' - last_short_sent < 600) =>
           LET lisDue == /\ fast_tick'.lis >= cfg.lis_threshold * 100
                         /\ now' - last_lis_sent >= 1800
           IN  /\ lisDue =>
                      /\ fast_tick'.sent = "lis"
                      /\ fast_sent' = Append(fast_sent, [class |-> "lis", at |-> now'])
                      /\ last_send'.calls = 1
                      /\ last_lis_sent' = now'
                      /\ last_short_sent' = last_short_sent
               /\ ~lisDue =>
                      /\ fast_tick'.sent = "none"
                      /\ fast_sent' = fast_sent
                      /\ last_send'.calls = 0
               /\ \A i, j \in 1 .. Len(fast_sent') :
                      (i < j /\ fast_sent'[i].class = fast_sent'[j].class) =>
                          fast_sent'[j].at - fast_sent'[i].at >=
                              (IF fast_sent'[i].class = "short" THEN 600 ELSE 1800)
    ]_vars

\* C21 witness: a short-fuse notification and, 9 minutes later, an LIS
\* notification from a tick whose score had short_fuse.
C21_Witness ==
    /\ Len(fast_sent) = 2
    /\ fast_sent[1].class = "short"
    /\ fast_sent[2].class = "lis"
    /\ fast_sent[2].at - fast_sent[1].at = 9 * 60
    /\ fast_tick.sent = "lis"
    /\ fast_tick.short
    /\ last_short_sent = fast_sent[1].at
    /\ last_lis_sent = fast_sent[2].at

\* C9: a Fast tick in which exactly one of the four fetches fails with a
\* network error still scores the degraded reading (Kp and levels 0, Bz or
\* speed absent for the failed feed) and applies the cooldown rules to it.
C9_DegradedScoring ==
    LET f == fast_tick.feeds
        failed == {i \in 1 .. 4 : ~f[i].ok}
        kp == IF f[1].ok THEN f[1].v ELSE 0
        bz == IF f[2].ok THEN f[2] ELSE OkNone
        spd == IF f[3].ok THEN f[3] ELSE OkNone
        al == IF f[4].ok THEN f[4] ELSE OkLevels(0, 0, 0)
        sc == score_local(cfg.lat, kp, bz, spd, al.g, al.r, al.s,
                          is_daylight_local(fast_tick.at, 7, 19),
                          cfg.short_bz_nt, cfg.short_spd_kms)
    IN  (fast_tick.ran /\ Cardinality(failed) = 1) =>
            /\ fast_tick.built
            /\ fast_tick.lis = sc.lis
            /\ fast_tick.short = sc.short

(***************************************************************************)
(* Alerts loop: properties.                                                *)
(***************************************************************************)
\* C3: an Alerts tick whose tuple has a level at its configured minimum and
\* differs from the last notified tuple ((0,0,0) before any) notifies,
\* however little time has passed; a tick whose tuple equals the last
\* notified tuple does not.
C3_AlertLevelChangeGate ==
    LET t == alerts_tick
        tuple == <<t.feed.g, t.feed.r, t.feed.s>>
        last == IF t.before = <<>> THEN <<0, 0, 0>> ELSE t.before[1]
        atMinimum == \/ t.feed.g >= cfg.g_min_notify
                     \/ t.feed.r >= cfg.r_min_notify
                     \/ t.feed.s >= cfg.s_min_notify
    IN  (t.ran /\ t.feed.ok) =>
            /\ (atMinimum /\ tuple # last) => t.sent
            /\ tuple = last => ~t.sent

\* C3 witness: with no time elapsed since the start, (2,0,0) was notified and
\* the tick that fetched (2,1,0) right after it has notified again.
C3_Witness ==
    /\ now = AlertsStart
    /\ alerts_tick.sent
    /\ alerts_tick.before = << <<2, 0, 0>> >>
    /\ alerts_tick.feed = OkLevels(2, 1, 0)

\* C20: the memory of the last notified tuple survives tuples below the
\* minimums: last_levels is always the last notified tuple, a tick that
\* fetches that tuple again after one or more sub-minimum tuples sends
\* nothing, and a tick that notifies has fetched a tuple with a level at its
\* minimum that differs from the last notified one.
C20_AlertMemoryKept ==
    [][LET t == alerts_tick'.feed
           tuple == <<t.g, t.r, t.s>>
       IN  /\ alerts_notified' # <<>> => last_levels' = alerts_notified'[1]
           /\ (/\ alerts_notified # <<>>
               /\ alerts_tick.lull
               /\ t.ok
               /\ tuple = alerts_notified[1]) =>
                  /\ ~alerts_tick'.sent
                  /\ last_send'.calls = 0
                  /\ last_levels' = tuple
           /\ (alerts_notified # <<>> /\ alerts_tick'.sent) =>
                  /\ tuple # alerts_notified[1]
                  /\ \/ t.g >= cfg.g_min_notify
                     \/ t.r >= cfg.r_min_notify
                     \/ t.s >= cfg.s_min_notify
    ]_vars

\* C20 witness: (2,0,0) was notified, a tuple below the minimums followed,
\* and the tick that has just fetched (2,0,0) again sent nothing.
C20_Witness ==
    /\ alerts_notified = << <<2, 0, 0>> >>
    /\ alerts_tick.lull
    /\ alerts_tick.feed = OkLevels(2, 0, 0)
    /\ ~alerts_tick.sent
    /\ last_send.calls = 0
    /\ last_levels = <<2, 0, 0>>

(***************************************************************************)
(* The four loops together: properties.                                    *)
(***************************************************************************)
\* C7: after a failed tick of any loop (a fetch, score or notification
\* failure) every loop and the process are still running.
C7_FailureIsolation ==
    failed_ticks # {} => (proc_alive /\ daily_pc # "Panicked")

\* C12: once a loop decides to notify in a class, that class's state
\* (last_short_sent, last_lis_sent, last_levels) is updated in the same tick
\* whether the channels succeeded or failed; each channel is invoked at most
\* once, and a tick that sees the tuple of a failed alert notification again
\* does not send it again.
C12_FailedDeliveryCounts ==
    [][LET o == last_send'.out
           t == alerts_tick'.feed
       IN  /\ o.email_tries <= 1 /\ o.sms_tries <= 1
           /\ (last_send'.by = "fast" /\ last_send'.calls = 1) =>
                  /\ fast_tick'.sent = "short" =>
                         (last_short_sent' = now' /\ last_lis_sent' = last_lis_sent)
                  /\ fast_tick'.sent = "lis" =>
                         (last_lis_sent' = now' /\ last_short_sent' = last_short_sent)
                  /\ fast_tick'.sent # "none"
           /\ (last_send'.by = "alerts" /\ last_send'.calls = 1) =>
                  last_levels' = <<t.g, t.r, t.s>>
           /\ (/\ last_send.by = "alerts" /\ last_send.calls = 1
               /\ last_send'.by = "alerts" /\ t.ok
               /\ <<t.g, t.r, t.s>> = <<alerts_tick.feed.g, alerts_tick.feed.r,
                                        alerts_tick.feed.s>>) =>
                  (last_send'.calls = 0 /\ last_levels' = last_levels)
    ]_vars

\* C12 witness: an Alerts tick has notified for (2,1,0), both channels were
\* invoked and both failed, and last_levels is (2,1,0); the Fast loop has
\* sent a short-fuse notification before and last_short_sent is its instant.
C12_Witness ==
    /\ last_send.by = "alerts"
    /\ last_send.out.email = "failed"
    /\ last_send.out.sms = "failed"
    /\ alerts_tick.feed = OkLevels(2, 1, 0)
    /\ last_levels = <<2, 1, 0>>
    /\ fast_tick.sent = "short"
    /\ last_short_sent = fast_tick.at

\* C13: every Fire whose report is built hands exactly one notification to
\* send_notifications, whatever the score, the levels and the state of the
\* Fast and Alerts loops, and a Fire whose build fails hands over none; Fire
\* leaves last_short_sent, last_lis_sent and last_levels alone, invokes each
\* channel at most once, and the loop goes on to the 24 h sleep and from it
\* back to ComputeNextFire whether the build or a channel failed or not.
C13_DailyBypassesTracker ==
    [][/\ (daily_pc = "Fire" /\ last_send'.by = "daily") =>
                   /\ last_send'.ok =>
                          (last_send'.calls = 1 /\ daily_sent' = daily_sent + 1)
                   /\ ~last_send'.ok =>
                          (last_send'.calls = 0 /\ daily_sent' = daily_sent)
                   /\ last_send'.out.email_tries <= 1
                   /\ last_send'.out.sms_tries <= 1
                   /\ <<last_short_sent, last_lis_sent, last_levels>>' =
                          <<last_short_sent, last_lis_sent, last_levels>>
                   /\ daily_pc' = "Sleep24"
                   /\ proc_alive'
       /\ (daily_pc = "Sleep24" /\ daily_pc' # "Sleep24") =>
            (daily_pc' = "ComputeNextFire" /\ proc_alive')
    ]_vars

\* C13 witness: a Fire has just sent its report (the email failed) while the
\* Fast loop is inside its short-fuse cooldown state (last_short_sent set,
\* the last score below the LIS threshold) and last_levels is (2,0,0).
C13_Witness ==
    /\ last_send.by = "daily"
    /\ last_send.calls = 1
    /\ last_send.out.email = "failed"
    /\ daily_pc = "Sleep24"
    /\ daily_sent = 1
    /\ last_short_sent > 0
    /\ fast_tick.lis < cfg.lis_threshold * 100
    /\ last_levels = <<2, 0, 0>>

\* C14: with the four loops interleaved, last_short_sent and last_lis_sent
\* change only in steps of the Fast loop and last_levels only in steps of the
\* Alerts loop; no step of a loop changes the state of another loop or the
\* configuration, and the decision of a Fast or Alerts tick is the one its
\* own state and its own inputs give.
C14_PerLoopOwnership ==
    [][LET by == last_send'.by
           f == fast_tick'.feeds
           st == build_quick_status(f[1], f[2], f[3], f[4], now')
       IN  /\ cfg' = cfg
           /\ by # "fast" =>
                  UNCHANGED <<last_short_sent, last_lis_sent, fast_tick, fast_sent>>
           /\ by # "alerts" =>
                  UNCHANGED <<last_levels, alerts_tick, alerts_notified>>
           /\ by \in {"fast", "alerts", "kp"} =>
                  UNCHANGED <<daily_pc, now_local, target_local, daily_wake,
                              fire_log, daily_sent>>
           /\ by = "fast" =>
                  fast_tick'.sent = fast_decision(st, now', last_short_sent, last_lis_sent)
           /\ by = "alerts" =>
                  alerts_tick'.sent = alerts_decision(alerts_tick'.feed, last_levels)
    ]_vars

\* C14 witness: after an Alerts notification for (2,0,0) and a Fast
\* short-fuse notification, a Daily Fire and a Warm-cache tick have run and
\* the three tracker variables still hold what their own loops wrote.
C14_Witness ==
    /\ last_send.by = "kp"
    /\ Len(fire_log) = 1
    /\ alerts_notified = << <<2, 0, 0>> >>
    /\ last_levels = <<2, 0, 0>>
    /\ Len(fast_sent) = 1
    /\ fast_sent[1].class = "short"
    /\ last_short_sent = fast_sent[1].at
    /\ last_lis_sent = 0

(***************************************************************************)
(* The risk scorer: properties.                                            *)
(***************************************************************************)
\* C15: for every Reading, short_fuse is true if and only if Bz and speed are
\* both present, Bz <= short_bz_nt and speed >= short_spd_kms; with Bz or
\* speed absent the scoring still completes, short_fuse is false and the
\* index carries no short term; the short term is always within [0,30].
C15_ShortFuseFlag ==
    LET rd == scored.reading
        present == rd.bz.some /\ rd.spd.some
        term == short_score(rd.bz, rd.spd, cfg.short_bz_nt, cfg.short_spd_kms)
    IN  scored.done =>
            /\ scored.result.short <=>
                   (/\ present
                    /\ rd.bz.v <= cfg.short_bz_nt
                    /\ rd.spd.v >= cfg.short_spd_kms)
            /\ ~present =>
                   /\ ~scored.result.short
                   /\ term = 0
                   /\ scored.result.lis =
                          Clamp(geo_score(cfg.lat, rd.kp) + r_score(rd.r, rd.daylight)
                                  + s_score(rd.s, cfg.lat), 0, 10000)
            /\ term >= 0 /\ term <= 3000

\* C15 witness: a scored Reading with Bz = -15 nT and no speed: short_fuse
\* is false.
C15_Witness ==
    /\ scored.done
    /\ scored.reading.bz = OkSome(-15)
    /\ scored.reading.spd = OkNone
    /\ ~scored.result.short

\* C16: for every Reading and latitude the index is the sum of the four
\* terms clamped to [0,100]; R and S levels past the tables score the table
\* maxima 25 and 10 (before the night and low-latitude factors), and Kp past
\* 9 scores as Kp 9.
C16_IndexRange ==
    LET rd == scored.reading
        sum == geo_score(cfg.lat, rd.kp)
                 + short_score(rd.bz, rd.spd, cfg.short_bz_nt, cfg.short_spd_kms)
                 + r_score(rd.r, rd.daylight) + s_score(rd.s, cfg.lat)
    IN  scored.done =>
            /\ scored.result.lis = Max(0, Min(sum, 100 * 100))
            /\ scored.result.lis >= 0 /\ scored.result.lis <= 100 * 100
            /\ rd.r > 5 =>
                   r_score(rd.r, rd.daylight) = (IF rd.daylight THEN 2500 ELSE 875)
            /\ rd.s > 5 =>
                   s_score(rd.s, cfg.lat) = (IF Abs(cfg.lat) < 400 THEN 600 ELSE 1000)
            /\ rd.kp > 90 => geo_score(cfg.lat, rd.kp) = geo_score(cfg.lat, 90)

\* C16 witness: Kp 20, R9 and S9 by day at latitude 65 with the full
\* short term: the four terms add up to 125 and the index is 100.
C16_Witness ==
    /\ scored.done
    /\ cfg.lat = 650
    /\ scored.reading.kp = 200
    /\ scored.reading.r = 9
    /\ scored.reading.s = 9
    /\ scored.reading.daylight
    /\ scored.reading.bz = OkSome(-15)
    /\ scored.reading.spd = OkSome(800)
    /\ scored.result.lis = 100 * 100

\* C17: the category is a function of the index alone, with inclusive lower
\* bounds: Severe from 80, High from 60, Moderate from 40, Elevated from 20,
\* Low below 20 (so it never decreases as the index grows).
C17_CategoryOfIndex ==
    LET lis == scored.result.lis
    IN  scored.done =>
            scored.result.level =
                (IF lis >= 8000 THEN "Severe"
                 ELSE IF lis >= 6000 /\ lis < 8000 THEN "High"
                 ELSE IF lis >= 4000 /\ lis < 6000 THEN "Moderate"
                 ELSE IF lis >= 2000 /\ lis < 4000 THEN "Elevated"
                 ELSE "Low")

\* C17 witness: a Reading scored exactly 60 is High.
C17_Witness ==
    /\ scored.done
    /\ scored.result.lis = 6000
    /\ scored.result.level = "High"

(***************************************************************************)
(* Notifications: properties.                                              *)
(***************************************************************************)
\* C18: in every notification the email channel is invoked (once) if and
\* only if server, user, password, from and to are all set, and the SMS
\* channel if and only if account id, token, from and to are all set; a
\* channel with a partial set is off, which is not a failure; the SMS
\* channel is invoked whether the email channel failed or not.
C18_ChannelGating ==
    LET o == last_send.out
        emailSet == /\ cfg.smtp_server /\ cfg.smtp_user /\ cfg.smtp_pass
                    /\ cfg.email_from /\ cfg.email_to
        smsSet == /\ cfg.twilio_sid /\ cfg.twilio_token
                  /\ cfg.twilio_from /\ cfg.sms_to
    IN  last_send.calls = 1 =>
            /\ emailSet => (o.email_tries = 1 /\ o.email \in {"ok", "failed"})
            /\ ~emailSet => (o.email_tries = 0 /\ o.email = "off")
            /\ smsSet => (o.sms_tries = 1 /\ o.sms \in {"ok", "failed"})
            /\ ~smsSet => (o.sms_tries = 0 /\ o.sms = "off")
            /\ proc_alive

\* C18 witness: a notification whose email failed and whose SMS was sent.
C18_Witness ==
    /\ last_send.calls = 1
    /\ last_send.out.email = "failed"
    /\ last_send.out.sms = "ok"

(***************************************************************************)
(* The Fast and Alerts loops: frame properties.                            *)
(***************************************************************************)
\* What a Fast or Alerts step did, for the two statements of C19: whether
\* the fetch its rule is evaluated on failed, whether a rule was eligible,
\* and whether the step left the tracker alone and sent nothing.
FastFetchFailed == \E i \in 1 .. 4 : ~fast_tick'.feeds[i].ok
FastEligible ==
    \/ fast_tick'.short /\ now' - last_short_sent >= 600
    \/ fast_tick'.lis >= cfg.lis_threshold * 100 /\ now' - last_lis_sent >= 1800
AlertsTuple == <<alerts_tick'.feed.g, alerts_tick'.feed.r, alerts_tick'.feed.s>>
AlertsEligible ==
    /\ \/ alerts_tick'.feed.g >= cfg.g_min_notify
       \/ alerts_tick'.feed.r >= cfg.r_min_notify
       \/ alerts_tick'.feed.s >= cfg.s_min_notify
    /\ AlertsTuple # last_levels
\* The fetches for the body of an alert notification failed.
AlertsBodyFetchFailed == alerts_tick'.sent /\ ~alerts_tick'.body_ok
NothingDone ==
    /\ last_send'.calls = 0
    /\ UNCHANGED <<last_short_sent, last_lis_sent, last_levels>>
NotifyStamps ==
    /\ (last_send'.by = "fast" /\ fast_tick'.sent = "short") => last_short_sent' = now'
    /\ (last_send'.by = "fast" /\ fast_tick'.sent = "lis") => last_lis_sent' = now'
    /\ (last_send'.by = "alerts" /\ alerts_tick'.sent) => last_levels' = AlertsTuple

\* C19 as stated: in every Fast or Alerts tick in which a fetch fails or no
\* rule is eligible, last_short_sent, last_lis_sent and last_levels are
\* unchanged and no notification is sent; a class that notifies stamps its
\* own state with the tick's now or (G,R,S).
C19_AsStated ==
    [][/\ (last_send'.by = "fast" /\ (FastFetchFailed \/ ~FastEligible)) => NothingDone
       /\ (/\ last_send'.by = "alerts"
           /\ \/ ~alerts_tick'.feed.ok
              \/ AlertsBodyFetchFailed
              \/ ~AlertsEligible) => NothingDone
       /\ NotifyStamps
    ]_vars

\* C19 amended: in every Fast or Alerts tick in which the fetch the rule is
\* evaluated on fails (build_quick_status, fetch_alert_levels) or no rule is
\* eligible, the three tracker variables are unchanged and no notification is
\* sent; an eligible Alerts tick notifies and stamps last_levels also when
\* the fetches for the notification body fail; a class that notifies stamps
\* its own state with the tick's now or (G,R,S).
C19_FrameEffect ==
    [][/\ (last_send'.by = "fast" /\ (FastFetchFailed \/ ~FastEligible)) => NothingDone
       /\ (/\ last_send'.by = "alerts"
           /\ (~alerts_tick'.feed.ok \/ ~AlertsEligible)) => NothingDone
       /\ (last_send'.by = "alerts" /\ alerts_tick'.feed.ok /\ AlertsEligible) =>
              (last_send'.calls = 1 /\ last_levels' = AlertsTuple)
       /\ NotifyStamps
    ]_vars

\* C19 witness: a Fast tick with the short-fuse condition 9 minutes after a
\* short-fuse notification, the score below the threshold: nothing was sent
\* and last_short_sent is still the earlier instant, while last_levels is
\* the (2,0,0) the Alerts loop notified for.
C19_Witness ==
    /\ last_send.by = "fast"
    /\ last_send.calls = 0
    /\ fast_tick.short
    /\ fast_tick.lis < cfg.lis_threshold * 100
    /\ last_short_sent = now - 9 * 60
    /\ last_levels = <<2, 0, 0>>

====
